---------------------------- MODULE Spec2Model ----------------------------
(***************************************************************************)
(* ZapController (src/unnamed/part_000): the lifecycle coordinator of a    *)
(* local or remote lnd node.  The controller is a javascript-state-machine *)
(* (StateMachine.factory, lines 453-460) whose lifecycle callbacks spawn   *)
(* and shut down the Neutrino process, open the Lightning and the          *)
(* WalletUnlocker gRPC sessions and relay messages to the renderer.        *)
(*                                                                         *)
(* A handler is a pure operator on the controller record (the fields of    *)
(* `this` plus the objects it owns); an action takes the current record,   *)
(* applies the handler with everything it calls synchronously or in        *)
(* microtasks, and commits the result.  Every await on I/O, every timer    *)
(* and every event of a child process is an action of its own.             *)
(***************************************************************************)
EXTENDS Naturals, Sequences, FiniteSets, TLC

VARIABLES
    state,          \* the state of the controller's state machine
    pending,        \* a transition is in progress (the library's `pending`)
    trans,          \* the transition in progress and the await it is parked on
    cfg,            \* this.lndConfig.type
    cipher,         \* process.env.GRPC_SSL_CIPHER_SUITES
    win,            \* this.mainWindow is set (not yet 'closed')
    neutrino,       \* this.neutrino: index into procs, 0 when undefined
    procs,          \* every Neutrino object created so far, in order
    lightning,      \* this.lightning: index into sess, 0 when undefined
    walletUnlocker, \* this.walletUnlocker: index into sess, 0 when undefined
    sess,           \* every Lightning / WalletUnlocker object created so far
    ipc,            \* number of listeners per ipcMain channel
    sd,             \* the promise, timer and exit listener of shutdownNeutrino
    attempt,        \* the connect attempt of the latest connectLnd transition
    last,           \* what the latest step did (calls, exits, resolutions)
    outbox,         \* what webContents.send delivered in the latest step,
                    \* oldest first
    rec             \* what the run follows besides the controller's state:
                    \* "outbox", "calls", "env" (fixed by the initial state)

vars == << state, pending, trans, cfg, cipher, win, neutrino, procs, lightning,
           walletUnlocker, sess, ipc, sd, attempt, last,
           outbox, rec >>

-----------------------------------------------------------------------------
(* Bounds of the model. *)

\* Neutrino, Lightning and WalletUnlocker objects created over a run.
MaxObjects == 3

\* The same, over a run that follows the messages sent to the renderer or
\* the environment of the process.
MaxTraceObjects == 2

-----------------------------------------------------------------------------
(* The state machine: javascript-state-machine configured at 453-460. *)

NoState == "invalid"

States == {"none", "onboarding", "running", "connected", "terminated"}

Triggers == {"startOnboarding", "startLnd", "connectLnd", "terminate"}

\* A table that lets startLnd start from any state.
Transitions_StartLndFromAny ==
    { [name |-> "startOnboarding", from |-> "*",          to |-> "onboarding"],
      [name |-> "startLnd",        from |-> "*",          to |-> "running"],
      [name |-> "connectLnd",      from |-> "onboarding", to |-> "connected"],
      [name |-> "terminate",       from |-> "*",          to |-> "terminated"] }

Transitions ==
    { [name |-> "startOnboarding", from |-> "*",          to |-> "onboarding"],
      [name |-> "startLnd",        from |-> "onboarding", to |-> "running"],
      [name |-> "connectLnd",      from |-> "onboarding", to |-> "connected"],
      [name |-> "terminate",       from |-> "*",          to |-> "terminated"] }

\* seek: the target of transition t in state s, the exact source before the
\* wildcard; NoState when the table has no entry.
Seek(t, s) ==
    LET exact == {r \in Transitions : r.name = t /\ r.from = s}
        wild  == {r \in Transitions : r.name = t /\ r.from = "*"}
    IN  IF exact # {} THEN (CHOOSE r \in exact : TRUE).to
        ELSE IF wild # {} THEN (CHOOSE r \in wild : TRUE).to
        ELSE NoState

\* No transition in progress; otherwise its name and the await it is on.
NoTrans == [name |-> "none", step |-> "idle"]

-----------------------------------------------------------------------------
(* Connection profile and connect outcomes. *)

ConfigTypes == {"local", "custom", "btcpayserver"}

\* The types the renderer's 'startLnd' message is drawn from.  The controller
\* treats every type but "local" alike (431), "custom" stands for them.
InputTypes == {"local", "custom"}

\* The types of the renderer's 'startLnd' message in a run that follows the
\* environment, where "btcpayserver" differs from the others (24).
EnvInputTypes == ConfigTypes

\* An environment variable that is not set.
Unset == "<unset>"

\* Array.prototype.join
RECURSIVE Join(_, _)
Join(list, sep) ==
    IF list = << >> THEN ""
    ELSE IF Len(list) = 1 THEN list[1]
    ELSE list[1] \o sep \o Join(Tail(list), sep)

\* grpcSslCipherSuites (23-45)
grpcSslCipherSuites(connectionType) ==
    Join(IF connectionType = "btcpayserver"
         THEN << "ECDHE-RSA-AES256-GCM-SHA384",
                 "ECDHE-RSA-AES128-GCM-SHA256" >>
         ELSE << "ECDHE-ECDSA-AES128-GCM-SHA256",
                 "ECDHE-ECDSA-AES256-GCM-SHA384",
                 "ECDHE-ECDSA-AES128-CBC-SHA256",
                 "ECDHE-ECDSA-CHACHA20-POLY1305" >>,
         ":")

\* A field of the errors object that was never assigned.
Absent == "<absent>"

NoErrors == [host |-> Absent, cert |-> Absent, macaroon |-> Absent]

\* The rejections of Lightning.connect the model draws from: one per code,
\* the gRPC ones carrying `details`, which may be the empty string.
Errors ==
    { [code |-> "LND_GRPC_HOST_ERROR",     message |-> "x", details |-> Absent],
      [code |-> "LND_GRPC_CERT_ERROR",     message |-> "y", details |-> Absent],
      [code |-> "LND_GRPC_MACAROON_ERROR", message |-> "z", details |-> Absent],
      [code |-> "12",                      message |-> "u", details |-> "d"],
      [code |-> "other",                   message |-> "v", details |-> "d"],
      [code |-> "14",                      message |-> "w", details |-> ""] }

\* The connect attempt of a connectLnd transition: the code it failed with,
\* the fallback WalletUnlocker (index into sess, 0 when none), the calls of
\* sendMessage it made and the errors object it built.
NoAttempt == [phase |-> "idle", err |-> "none", wu |-> 0,
              wuActive |-> 0, lndError |-> 0, errors |-> NoErrors]

\* shutdownNeutrino's unresolved promise: its deadline timer, its
\* once('exit') listener and the Neutrino they are about (0 when resolved);
\* and the awaits of lightning.disconnect() that have not returned yet.
NoShutdown == [timer |-> FALSE, exitHandler |-> FALSE, proc |-> 0, draining |-> 0]

\* What one step did, for the properties to read:
\*   call, result  the transition method it called and whether the library
\*                 accepted the call or threw (invalid, pending);
\*   quit          it called app.quit();
\*   exited        the Neutrino whose 'exit' it delivered (0 when none), with
\*   exitedShut    how that Neutrino's shutdown had resolved before, and
\*   fatal         whether the exit listener showed the dialog and terminated;
\*   resolved      how it resolved shutdownNeutrino's promise, with
\*   sigterm       whether that Neutrino's process has been sent SIGTERM;
\*   event         the Neutrino event or the connect outcome it delivered;
\*   pushed        the calls of sendMessage it made;
\*   cmd           the channel of the renderer's command it delivered, with
\*   dispatched    the calls of registerMethods its listeners made.
NoLast == [call |-> "none", result |-> "none", quit |-> FALSE,
           exited |-> 0, exitedShut |-> "none", fatal |-> FALSE,
           resolved |-> "none", sigterm |-> FALSE,
           event |-> "none", pushed |-> 0,
           cmd |-> "none", dispatched |-> 0, did |-> << >>]

\* The controller record a step starts from: `this` and what it owns.  The
\* records of the previous step (`last`, `outbox`, a finished attempt) are
\* dropped.
Cur == [state |-> state, pending |-> pending, trans |-> trans, cfg |-> cfg,
        cipher |-> cipher,
        win |-> win, neutrino |-> neutrino, procs |-> procs,
        lightning |-> lightning, walletUnlocker |-> walletUnlocker,
        sess |-> sess, ipc |-> ipc, sd |-> sd,
        attempt |-> IF attempt.phase = "done" THEN NoAttempt ELSE attempt,
        last |-> NoLast,
        outbox |-> << >>, rec |-> rec]

\* A session object nothing refers to any more.
Gone == [kind |-> "none", st |-> "closed", origin |-> "none"]

\* A Neutrino whose process has exited.
Dead == [st |-> "dead", process |-> FALSE, sigint |-> FALSE,
         sigterm |-> FALSE, shut |-> "none"]

\* Sessions that are closed and no longer this.lightning or
\* this.walletUnlocker are garbage; so is what happened to a process that
\* has exited.
Collect(c) ==
    [c EXCEPT !.sess = [i \in DOMAIN @ |->
                 IF @[i].st = "closed" /\ i # c.lightning /\ i # c.walletUnlocker
                 THEN Gone ELSE @[i]],
              !.procs = [i \in DOMAIN @ |->
                 IF @[i].st = "dead" /\ ~@[i].process THEN Dead ELSE @[i]]]

Commit(c0) ==
    LET c == Collect(c0) IN
    /\ state' = c.state
    /\ pending' = c.pending
    /\ trans' = c.trans
    /\ cfg' = c.cfg
    /\ cipher' = c.cipher
    /\ win' = c.win
    /\ neutrino' = c.neutrino
    /\ procs' = c.procs
    /\ lightning' = c.lightning
    /\ walletUnlocker' = c.walletUnlocker
    /\ sess' = c.sess
    /\ ipc' = c.ipc
    /\ sd' = c.sd
    /\ attempt' = c.attempt
    /\ last' = c.last
    /\ outbox' = c.outbox
    /\ rec' = c.rec

-----------------------------------------------------------------------------
(* Helpers: sendMessage and the IPC listeners. *)

\* The calls a handler makes on what it does not own (sendMessage, subscribe,
\* ipcMain.on), in the order it makes them, in the runs that record outbox.
did(c, what) ==
    IF "outbox" \in c.rec THEN [c EXCEPT !.last.did = Append(@, what)] ELSE c

\* A sendMessage that does not look at this.mainWindow.
sendMessage_IgnoresWindow(c, msg, data) ==
    IF "outbox" \notin c.rec THEN c
    ELSE [c EXCEPT !.last.pushed = @ + 1, !.last.did = Append(@, msg),
                   !.outbox = Append(@, [msg |-> msg, data |-> data])]

\* sendMessage (237-247): delivered when the main window is set, otherwise
\* logged and dropped.
sendMessage(c, msg, data) ==
    IF "outbox" \notin c.rec THEN c
    ELSE LET c1 == did([c EXCEPT !.last.pushed = @ + 1], msg)
         IN  IF c.win
             THEN [c1 EXCEPT !.outbox = Append(@, [msg |-> msg, data |-> data])]
             ELSE c1

NoListeners ==
    [startLnd |-> 0, startLightningWallet |-> 0, walletUnlocker |-> 0, lnd |-> 0]

\* _removeIpcListeners (445-450)
removeIpcListeners(c) == [c EXCEPT !.ipc = NoListeners]

\* _registerIpcListeners (437-440)
registerIpcListeners(c) ==
    [c EXCEPT !.ipc.startLnd = @ + 1, !.ipc.startLightningWallet = @ + 1]

-----------------------------------------------------------------------------
(* The sessions.  A session is "connecting" from its creation to the end   *)
(* of connect(), then "open", or "closed" when connect() failed;           *)
(* disconnect() closes an open one.  `origin` is the caller whose          *)
(* continuation waits for connect().                                       *)

NewSession(kind, origin) ==
    [kind |-> kind, st |-> "connecting", origin |-> origin]

\* this.lightning && this.lightning.can('disconnect' | 'terminate')
lightningCan(c) == c.lightning # 0 /\ c.sess[c.lightning].st = "open"

\* this.lightning.disconnect()
lightningDisconnect(c) == [c EXCEPT !.sess[c.lightning].st = "closed"]

\* The library's doTransit and endTransit at the end of the lifecycle.
endTransit(c) == [c EXCEPT !.pending = FALSE, !.trans = NoTrans]

\* failTransit: a lifecycle promise rejected before doTransit.
failTransit(c) == [c EXCEPT !.pending = FALSE, !.trans = NoTrans]

\* startWalletUnlocker (252-271) up to its await.
startWalletUnlocker(c, origin) ==
    [c EXCEPT !.sess = Append(@, NewSession("walletUnlocker", origin)),
              !.walletUnlocker = Len(c.sess) + 1]

\* startLightningWallet (276-295) up to its await.
startLightningWallet(c, origin) ==
    [c EXCEPT !.sess = Append(@, NewSession("lightning", origin)),
              !.lightning = Len(c.sess) + 1]

\* startWalletUnlocker after connect() resolved (260-266).
walletUnlockerConnected(c, i) ==
    LET c1 == [c EXCEPT !.sess[i].st = "open", !.sess[i].origin = "none",
                        !.ipc.walletUnlocker = @ + 1]
        c2 == sendMessage(c1, "walletUnlockerGrpcActive", "")
    IN  IF c.sess[i].origin = "fallback"
        THEN [c2 EXCEPT !.attempt.wuActive = @ + 1]
        ELSE c2

\* A startLightningWallet that notifies the renderer before it subscribes
\* and registers the lnd handler.
lightningConnected_SendsFirst(c, i) ==
    LET c1 == sendMessage([c EXCEPT !.sess[i].st = "open",
                                    !.sess[i].origin = "none"],
                          "lightningGrpcActive", "")
        c2 == did(c1, "lightning.subscribe")
    IN  did([c2 EXCEPT !.ipc.lnd = @ + 1], "ipcMain.on:lnd")

\* startLightningWallet after connect() resolved (284-290): subscribe, then
\* ipcMain.on('lnd'), then sendMessage('lightningGrpcActive').
lightningConnected(c, i) ==
    LET c1 == did([c EXCEPT !.sess[i].st = "open", !.sess[i].origin = "none"],
                  "lightning.subscribe")
        c2 == did([c1 EXCEPT !.ipc.lnd = @ + 1], "ipcMain.on:lnd")
    IN  sendMessage(c2, "lightningGrpcActive", "")

\* The errors object built by the catch of onBeforeConnectLnd (177-202).
ErrorsFor(e) ==
    LET e1 == IF e.code = "LND_GRPC_HOST_ERROR"
              THEN [NoErrors EXCEPT !.host = e.message] ELSE NoErrors
        e2 == IF e.code = "LND_GRPC_CERT_ERROR"
              THEN [e1 EXCEPT !.cert = e.message]
              ELSE IF e.code = "LND_GRPC_MACAROON_ERROR"
                   THEN [e1 EXCEPT !.macaroon = e.message]
                   ELSE e1
    IN  IF e.code = "12" THEN e2
        ELSE [e2 EXCEPT !.host = "Unable to connect to host: "
                     \o (IF e.details \notin {Absent, ""}
                         THEN e.details ELSE e.message)]

\* onBeforeConnectLnd, the then of startLightningWallet (175) and the
\* transition's doTransit to `connected`.
connectLndResolved(c) ==
    LET c1 == sendMessage(c, "walletConnected", "")
    IN  endTransit([c1 EXCEPT !.state = "connected", !.attempt.phase = "done"])

\* A catch that reports code 12 like any other code and never falls back.
connectLndRejected_NoFallback(c, e) ==
    failTransit(
        [sendMessage([c EXCEPT !.attempt.err = e.code,
                               !.attempt.errors = ErrorsFor(e)],
                     "startLndError", "errors")
            EXCEPT !.attempt.lndError = @ + 1, !.attempt.phase = "done"])

\* A catch that reports the error and lets the transition complete.
connectLndRejected_Completes(c, e) ==
    LET c1 == [c EXCEPT !.attempt.err = e.code, !.attempt.errors = ErrorsFor(e)]
    IN  IF e.code = "12"
        THEN startWalletUnlocker(
                 [c1 EXCEPT !.attempt.phase = "walletUnlocker",
                            !.attempt.wu = Len(c.sess) + 1,
                            !.trans.step = "walletUnlocker"], "fallback")
        ELSE endTransit(
                 [sendMessage(c1, "startLndError", "errors")
                     EXCEPT !.attempt.lndError = @ + 1, !.attempt.phase = "done",
                            !.state = "connected"])

\* onBeforeConnectLnd, the catch of startLightningWallet (176-207).
connectLndRejected(c, e) ==
    LET c1 == [c EXCEPT !.attempt.err = e.code, !.attempt.errors = ErrorsFor(e)]
    IN  IF e.code = "12"
        THEN startWalletUnlocker(
                 [c1 EXCEPT !.attempt.phase = "walletUnlocker",
                            !.attempt.wu = Len(c.sess) + 1,
                            !.trans.step = "walletUnlocker"], "fallback")
        ELSE failTransit(
                 [sendMessage(c1, "startLndError", "errors")
                     EXCEPT !.attempt.lndError = @ + 1, !.attempt.phase = "done"])

\* The fallback's startWalletUnlocker resolved: the catch handler's promise
\* resolves and the transition goes on to `connected`.
fallbackResolved(c) ==
    endTransit([c EXCEPT !.state = "connected", !.attempt.phase = "done"])

\* The fallback's startWalletUnlocker rejected (267-270): nothing catches it
\* before the library's failTransit.
fallbackRejected(c) == failTransit([c EXCEPT !.attempt.phase = "done"])

-----------------------------------------------------------------------------
(* The Neutrino process.  `process` is the object's child-process handle,  *)
(* sigint and sigterm the signals kill() has sent it, and `shut` how the   *)
(* shutdownNeutrino that was about it resolved ("none" before that).       *)

NewProc == [st |-> "live", process |-> TRUE, sigint |-> FALSE,
            sigterm |-> FALSE, shut |-> "none"]

\* startNeutrino (301-357): a new Neutrino, its listeners, start().
startNeutrino(c) ==
    [c EXCEPT !.procs = Append(@, NewProc), !.neutrino = Len(c.procs) + 1]

\* this.neutrino.kill(signal): signals the child process when there is one.
neutrinoKill(c, sig) ==
    IF c.neutrino = 0 \/ ~c.procs[c.neutrino].process THEN c
    ELSE IF sig = "SIGTERM" THEN [c EXCEPT !.procs[c.neutrino].sigterm = TRUE]
    ELSE [c EXCEPT !.procs[c.neutrino].sigint = TRUE]

\* onTerminate (223-226)
onTerminate(c) == [c EXCEPT !.last.quit = TRUE]

\* onStartOnboarding (150-155)
onStartOnboarding(c) == sendMessage(c, "startOnboarding", c.cfg)

\* An onOnboarding that returns right after the shutdown, without the delay.
afterShutdown_NoDelay(c) ==
    IF c.trans.name = "startOnboarding"
    THEN [onStartOnboarding(c) EXCEPT !.pending = FALSE, !.trans = NoTrans]
    ELSE [onTerminate(c) EXCEPT !.pending = FALSE, !.trans = NoTrans]

\* What follows `await this.shutdownNeutrino()`: in onOnboarding the 200 ms
\* delay (147), in onTerminated the end of the lifecycle (onTerminate).
afterShutdown(c) ==
    IF c.trans.name = "startOnboarding"
    THEN [c EXCEPT !.trans.step = "quiesce"]
    ELSE endTransit(onTerminate(c))

\* An exit handler that resolves without clearTimeout.
resolveShutdown_KeepsTimer(c, p, by) ==
    LET c1 == [c EXCEPT !.sd.timer = (by = "exit"), !.sd.exitHandler = FALSE,
                        !.sd.proc = IF by = "exit" THEN p ELSE 0,
                        !.last.resolved = by]
    IN  IF p = 0 THEN c1
        ELSE [c1 EXCEPT !.procs[p].shut = by,
                        !.last.sigterm = c.procs[p].sigterm]

\* resolve() of shutdownNeutrino's promise (380, 386), or its early return
\* (365), about Neutrino p.
resolveShutdown(c, p, by) ==
    LET c1 == [c EXCEPT !.sd.timer = FALSE, !.sd.exitHandler = FALSE,
                        !.sd.proc = 0, !.last.resolved = by]
    IN  IF p = 0 THEN c1
        ELSE [c1 EXCEPT !.procs[p].shut = by,
                        !.last.sigterm = c.procs[p].sigterm]

\* A shutdownNeutrino that does not await the disconnect before the kill.
shutdownNeutrino_KillsAtOnce(c) ==
    IF c.cfg # "local" \/ c.neutrino = 0 \/ ~c.procs[c.neutrino].process
    THEN resolveShutdown(c, c.neutrino, "skip")
    ELSE LET c1 == [c EXCEPT !.sd.timer = TRUE, !.sd.exitHandler = TRUE,
                             !.sd.proc = c.neutrino]
         IN  IF lightningCan(c1)
             THEN neutrinoKill(lightningDisconnect(c1), "SIGINT")
             ELSE neutrinoKill(c1, "SIGINT")

\* shutdownNeutrino (362-398) up to its first await.
shutdownNeutrino(c) ==
    IF c.cfg # "local" \/ c.neutrino = 0 \/ ~c.procs[c.neutrino].process
    THEN resolveShutdown(c, c.neutrino, "skip")
    ELSE LET c1 == [c EXCEPT !.sd.timer = TRUE, !.sd.exitHandler = TRUE,
                             !.sd.proc = c.neutrino]
         IN  IF lightningCan(c1)
             THEN [lightningDisconnect(c1) EXCEPT !.sd.draining = @ + 1]
             ELSE neutrinoKill(c1, "SIGINT")

\* `await this.shutdownNeutrino()`: parked until the promise resolves.
awaitShutdown(c) ==
    IF c.sd.timer THEN [c EXCEPT !.trans.step = "shutdown"]
    ELSE afterShutdown(c)

\* onOnboarding (127-148)
onOnboarding(c, from) ==
    LET c1 == registerIpcListeners(removeIpcListeners(c))
    IN  IF from = "connected" /\ lightningCan(c1)
        THEN [lightningDisconnect(c1) EXCEPT !.trans.step = "quiesce"]
        ELSE IF from = "running"
             THEN awaitShutdown(shutdownNeutrino(c1))
             ELSE [c1 EXCEPT !.trans.step = "quiesce"]

\* onTerminated (210-221), then onTerminate
onTerminated(c, from) ==
    IF from = "connected" /\ lightningCan(c)
    THEN endTransit(onTerminate(lightningDisconnect(c)))
    ELSE IF from = "running"
         THEN awaitShutdown(shutdownNeutrino(c))
         ELSE endTransit(onTerminate(c))

\* The record of a call of transition method t.
called(c, t, result) ==
    IF "calls" \in c.rec
    THEN [c EXCEPT !.last.call = t, !.last.result = result]
    ELSE c

\* The record of the event a step delivers.
heard(c, ev) ==
    IF "outbox" \in c.rec THEN [c EXCEPT !.last.event = ev] ELSE c

\* beginTransit and doTransit of a transition that changes the state.
doTransit(c, t, to) ==
    [c EXCEPT !.state = to, !.pending = TRUE,
              !.trans = [name |-> t, step |-> "sync"]]

\* transit: the lifecycle of transition t from `from` to `to` (453-460 and
\* the callbacks the controller defines).
transit(c, t, from, to) ==
    LET c0 == called(c, t, "accepted")
    IN  CASE t = "startOnboarding" ->
               IF from = to THEN onStartOnboarding(c0)
               ELSE onOnboarding(doTransit(c0, t, to), from)
          [] t = "terminate" ->
               IF from = to THEN onTerminate(c0)
               ELSE onTerminated(doTransit(c0, t, to), from)
          [] t = "startLnd" ->
               \* onBeforeStartLnd (157-165), then doTransit
               [startNeutrino(c0) EXCEPT !.state = to]
          [] OTHER ->
               \* onBeforeConnectLnd (167-174) up to the await in
               \* startLightningWallet
               startLightningWallet(
                   [c0 EXCEPT !.pending = TRUE,
                              !.trans = [name |-> t, step |-> "lightning"],
                              !.attempt = [NoAttempt EXCEPT !.phase = "lightning"]],
                   "connectLnd")

\* A fire that does not refuse a call while a transition is in progress.
fire_IgnoresPending(c, t) ==
    LET to == Seek(t, c.state)
    IN  IF to = NoState THEN called(c, t, "invalid")
        ELSE transit(c, t, c.state, to)

\* fire: a call of this.startOnboarding(), startLnd(), connectLnd() or
\* terminate().  An invalid or a pending transition throws and changes nothing.
fire(c, t) ==
    LET to == Seek(t, c.state)
    IN  IF to = NoState THEN called(c, t, "invalid")
        ELSE IF c.pending THEN called(c, t, "pending")
        ELSE transit(c, t, c.state, to)

\* process.env.GRPC_SSL_CIPHER_SUITES =
\*   process.env.GRPC_SSL_CIPHER_SUITES || grpcSslCipherSuites(options.type)
\* (426-427): an unset and an empty variable are falsy.
setCipherSuites(c, type) ==
    IF "env" \notin c.rec THEN c
    ELSE [c EXCEPT !.cipher = IF @ \notin {Unset, ""} THEN @
                              ELSE grpcSslCipherSuites(type)]

\* A finishOnboarding that writes the variable every time.
finishOnboarding_AlwaysWrites(c, type) ==
    fire([c EXCEPT !.cfg = type, !.cipher = grpcSslCipherSuites(type)],
         IF type = "local" THEN "startLnd" ELSE "connectLnd")

\* finishOnboarding (403-432)
finishOnboarding(c, type) ==
    fire(setCipherSuites([c EXCEPT !.cfg = type], type),
         IF type = "local" THEN "startLnd" ELSE "connectLnd")

-----------------------------------------------------------------------------
(* The actions. *)

\* The objects a step creates stay within the bounds of the model.
Within(c) ==
    Len(c.procs) + Len(c.sess) <=
        IF c.rec \cap {"outbox", "env"} # {} THEN MaxTraceObjects ELSE MaxObjects

Live(i) == i \in DOMAIN procs /\ procs[i].st = "live"

\* The listeners set by startNeutrino (305-354) stay on every Neutrino object
\* it made, so they run for whatever such an object emits, exited or not.
Listening(i) == i \in DOMAIN procs

Connecting(i, kind) ==
    i \in DOMAIN sess /\ sess[i].kind = kind /\ sess[i].st = "connecting"

\* this.startOnboarding(): init's splash-screen timer (105) and the main
\* process.
CallStartOnboarding ==
    LET c == fire(Cur, "startOnboarding") IN Within(c) /\ Commit(c)

\* this.terminate() called by the main process.
CallTerminate ==
    LET c == fire(Cur, "terminate") IN Within(c) /\ Commit(c)

\* ipcMain 'startLnd' (438): the renderer finished onboarding.
IpcStartLnd ==
    /\ ipc.startLnd > 0
    /\ \E type \in (IF "env" \in rec THEN EnvInputTypes ELSE InputTypes) :
          LET c == finishOnboarding(Cur, type) IN Within(c) /\ Commit(c)

\* ipcMain 'startLightningWallet' (439)
IpcStartLightningWallet ==
    /\ ipc.startLightningWallet > 0
    /\ LET c == startLightningWallet(Cur, "ipc") IN Within(c) /\ Commit(c)

\* `await this.lightning.connect()` (282) returns.
LightningConnectResolved ==
    \E i \in DOMAIN sess :
        /\ Connecting(i, "lightning")
        /\ LET c1 == lightningConnected(heard(Cur, "lightning.connect"), i)
           IN  Commit(IF sess[i].origin = "connectLnd"
                      THEN connectLndResolved(c1) ELSE c1)

\* `await this.lightning.connect()` (282) throws e (291-294).
LightningConnectRejected ==
    \E i \in DOMAIN sess, e \in Errors :
        /\ Connecting(i, "lightning")
        /\ LET c1 == [heard(Cur, "lightning.connect:rejected")
                         EXCEPT !.sess[i].st = "closed",
                                !.sess[i].origin = "none"]
               c2 == IF sess[i].origin = "connectLnd"
                     THEN connectLndRejected(c1, e) ELSE c1
           IN  Within(c2) /\ Commit(c2)

\* `await this.walletUnlocker.connect()` (258) returns.
WalletUnlockerConnectResolved ==
    \E i \in DOMAIN sess :
        /\ Connecting(i, "walletUnlocker")
        /\ LET c1 == walletUnlockerConnected(Cur, i)
           IN  Commit(heard(IF sess[i].origin = "fallback"
                            THEN fallbackResolved(c1) ELSE c1,
                            "walletUnlocker.connect"))

\* `await this.walletUnlocker.connect()` (258) throws (267-270).
WalletUnlockerConnectRejected ==
    \E i \in DOMAIN sess :
        /\ Connecting(i, "walletUnlocker")
        /\ LET c1 == [Cur EXCEPT !.sess[i].st = "closed",
                                 !.sess[i].origin = "none"]
           IN  Commit(IF sess[i].origin = "fallback"
                      THEN fallbackRejected(c1) ELSE c1)

\* The messages an event handler is run with: all of S when the run records
\* what is sent, one of them when nothing reads the message.
Payloads(S) == IF "outbox" \in rec THEN S ELSE {CHOOSE x \in S : TRUE}

\* neutrino 'wallet-unlocker-grpc-active' (324-327)
UnlockerReady ==
    /\ \E i \in DOMAIN procs : Listening(i)
    /\ LET c == startWalletUnlocker(heard(Cur, "wallet-unlocker-grpc-active"),
                                    "event")
       IN  Within(c) /\ Commit(c)

\* A relay that reports 'chain-sync-started' as still waiting.
SyncStatus_StartedAsWaiting ==
    [ev \in {"chain-sync-waiting", "chain-sync-started", "chain-sync-finished"} |->
        CASE ev = "chain-sync-finished" -> "complete"
          [] OTHER -> "waiting"]

\* The status each sync event of Neutrino is relayed as (329-342).
SyncStatus ==
    [ev \in {"chain-sync-waiting", "chain-sync-started", "chain-sync-finished"} |->
        CASE ev = "chain-sync-waiting" -> "waiting"
          [] ev = "chain-sync-started" -> "in-progress"
          [] OTHER -> "complete"]

\* neutrino 'chain-sync-waiting', '-started', '-finished' (329-342)
SyncEvent ==
    \E ev \in Payloads(DOMAIN SyncStatus) :
        /\ \E i \in DOMAIN procs : Listening(i)
        /\ Commit(sendMessage(heard(Cur, ev), "lndSyncStatus", SyncStatus[ev]))

\* neutrino 'got-current-block-height', 'got-lnd-block-height',
\* 'got-lnd-cfilter-height' (344-354)
HeightEvent ==
    \E msg \in Payloads({"currentBlockHeight", "lndBlockHeight", "lndCfilterHeight"}) :
        /\ \E i \in DOMAIN procs : Listening(i)
        /\ Commit(sendMessage(heard(Cur, "height"), msg, "height"))

\* neutrino 'error' (305-311): a dialog, nothing of the controller changes.
ErrorEvent ==
    /\ \E i \in DOMAIN procs : Listening(i)
    /\ Commit(Cur)

\* An exit listener that looks at `running` alone.
onExit_RunningOnly(c) ==
    IF c.state = "running"
    THEN fire([c EXCEPT !.last.fatal = TRUE], "terminate")
    ELSE c

\* The listener of neutrino 'exit' set by startNeutrino (313-322).
onExit(c) ==
    IF c.state \in {"running", "connected"}
    THEN fire([c EXCEPT !.last.fatal = TRUE], "terminate")
    ELSE c

\* neutrino 'exit': the listener of startNeutrino, then the once('exit')
\* listener of shutdownNeutrino (384-388) when it was registered on this
\* Neutrino before the event.  The Neutrino object clears its process handle
\* before or after it emits.
ExitEvent ==
    \E i \in DOMAIN procs, clearedFirst \in BOOLEAN :
        /\ Live(i)
        /\ LET c1 == [Cur EXCEPT !.procs[i].st = "dead",
                                 !.procs[i].process = ~clearedFirst,
                                 !.last.exited = i,
                                 !.last.exitedShut = procs[i].shut]
               c2 == onExit(c1)
               c3 == IF sd.exitHandler /\ sd.proc = i
                     THEN afterShutdown(resolveShutdown(c2, i, "exit"))
                     ELSE c2
           IN  Commit([c3 EXCEPT !.procs[i].process = FALSE])

\* A timer callback that resolves without this.neutrino.kill('SIGTERM').
TimerFire_SkipsKill ==
    /\ sd.timer
    /\ Commit(afterShutdown(resolveShutdown(Cur, neutrino, "timer")))

\* The 10 s timer of shutdownNeutrino fires (375-382).
TimerFire ==
    /\ sd.timer
    /\ Commit(afterShutdown(
           resolveShutdown(neutrinoKill(Cur, "SIGTERM"), neutrino, "timer")))

\* `await this.lightning.disconnect()` in shutdownNeutrino returns (393),
\* then this.neutrino.kill() (396).
DrainDone ==
    /\ sd.draining > 0
    /\ Commit(neutrinoKill([Cur EXCEPT !.sd.draining = @ - 1], "SIGINT"))

\* The 200 ms timer of onOnboarding fires (147), then onStartOnboarding.
QuiesceDone ==
    /\ trans.step = "quiesce"
    /\ Commit(endTransit(onStartOnboarding(Cur)))

\* ipcMain 'lnd' or 'walletUnlocker': a command of the renderer.  Every
\* listener registered on the channel (287, 261) calls registerMethods of
\* this.lightning, or of this.walletUnlocker, as it is now.
IpcCommand ==
    /\ "outbox" \in rec
    /\ \E ch \in {"lnd", "walletUnlocker"} :
          Commit([Cur EXCEPT !.last.cmd = ch, !.last.dispatched = ipc[ch]])

\* mainWindow 'closed' (118-120).  The window is read by sendMessage alone,
\* so its closing is a step of the runs that record outbox.
WindowClosed ==
    /\ win
    /\ "outbox" \in rec
    /\ Commit([Cur EXCEPT !.win = FALSE])

InitCore ==
    /\ state = "none"
    /\ pending = FALSE
    /\ trans = NoTrans
    /\ cfg \in InputTypes \cup {"none"}
    /\ cipher \in {Unset, "", "EXTERNAL"}
    /\ win = TRUE
    /\ neutrino = 0
    /\ procs = << >>
    /\ lightning = 0
    /\ walletUnlocker = 0
    /\ sess = << >>
    /\ ipc = NoListeners
    /\ sd = NoShutdown
    /\ attempt = NoAttempt
    /\ last = NoLast
    /\ outbox = << >>

\* A run that does not follow the environment starts, and stays, with the
\* variable unset.
Init == InitCore /\ cipher = Unset /\ rec = {}

InitCalls == InitCore /\ cipher = Unset /\ rec = {"calls"}

InitTrace == InitCore /\ cipher = Unset /\ rec = {"outbox"}

InitEnv == InitCore /\ rec = {"env"}

Next ==
    \/ CallStartOnboarding
    \/ CallTerminate
    \/ IpcStartLnd
    \/ IpcStartLightningWallet
    \/ LightningConnectResolved
    \/ LightningConnectRejected
    \/ WalletUnlockerConnectResolved
    \/ WalletUnlockerConnectRejected
    \/ UnlockerReady
    \/ SyncEvent
    \/ HeightEvent
    \/ ErrorEvent
    \/ ExitEvent
    \/ TimerFire
    \/ DrainDone
    \/ QuiesceDone

NextTrace == Next \/ WindowClosed \/ IpcCommand

\* The program's state alone.
Spec == Init /\ [][Next]_vars

\* With the calls of the transition methods and their outcomes recorded.
SpecCalls == InitCalls /\ [][Next]_vars

\* With the messages delivered to the renderer recorded.
SpecTrace == InitTrace /\ [][NextTrace]_vars

\* With the environment of the process followed.
SpecEnv == InitEnv /\ [][Next]_vars

\* The deadline timer of shutdownNeutrino is a setTimeout: unless it is
\* cleared, its callback runs.
SpecLive == Init /\ [][Next]_vars /\ WF_vars(TimerFire)

-----------------------------------------------------------------------------
(* The properties. *)

Open(kind) == {i \in DOMAIN sess : sess[i].kind = kind /\ sess[i].st = "open"}

\* The transition-relevant part of the controller: everything a rejected
\* call must leave alone.
machine == << state, pending, trans, neutrino, procs, lightning,
              walletUnlocker, sess, ipc, sd, win, outbox >>

\* C1: startLnd and connectLnd are accepted only in `onboarding` (with no
\* transition in progress), where startLnd spawns one Neutrino and enters
\* `running` and connectLnd begins the connect towards `connected`; called
\* in any other state they are rejected, and the state, the transition in
\* progress and the Neutrino objects stay as they were.
C1_StartOnlyFromOnboarding ==
    [][ last'.call \in {"startLnd", "connectLnd"} =>
          IF state = "onboarding" /\ ~pending
          THEN /\ last'.result = "accepted"
               /\ last'.call = "startLnd" =>
                     /\ state' = "running"
                     /\ Len(procs') = Len(procs) + 1
                     /\ neutrino' = Len(procs')
               /\ last'.call = "connectLnd" =>
                     /\ state' = "onboarding" /\ pending'
                     /\ trans' = [name |-> "connectLnd", step |-> "lightning"]
                     /\ procs' = procs
          ELSE /\ last'.result \in {"invalid", "pending"}
               /\ last'.result = "invalid" <=> state # "onboarding"
               /\ UNCHANGED machine ]_vars

\* C1 witness: startLnd called a second time, in `running`, and rejected.
C1_Witness ==
    /\ last.call = "startLnd" /\ last.result = "invalid"
    /\ state = "running" /\ Len(procs) = 1

\* C2: once shutdownNeutrino has armed its deadline timer, the promise
\* resolves (at the latest when the timer fires); and when the timer
\* resolves it, the Neutrino's process, unless it had exited before the
\* shutdown began, has been sent SIGTERM.
C2_ShutdownResolves ==
    /\ sd.timer ~> ~sd.timer
    /\ [](last.resolved = "timer" =>
            /\ ~sd.timer /\ trans.step # "shutdown"
            /\ neutrino # 0
            /\ procs[neutrino].st = "live" =>
                  /\ procs[neutrino].shut = "timer"
                  /\ procs[neutrino].sigterm /\ last.sigterm)

\* C2 witness: the timer resolved the shutdown of a process that is still
\* alive, and SIGTERM was sent.
C2_Witness ==
    /\ last.resolved = "timer" /\ last.exited = 0
    /\ procs[neutrino].st = "live" /\ procs[neutrino].sigterm

\* C3: when the exit of the process resolves shutdownNeutrino, the awaiting
\* transition goes on in that step, the timer is cleared and cannot fire,
\* and SIGTERM has not been sent to that process.
C3_ExitCancelsTimer ==
    last.resolved = "exit" =>
        /\ last.exited # 0
        /\ ~sd.timer /\ ~sd.exitHandler
        /\ ~ENABLED TimerFire
        /\ ~last.sigterm
        /\ trans.step # "shutdown"

\* C3 witness: an exit resolved the shutdown of onOnboarding, which now
\* waits its 200 ms.
C3_Witness ==
    /\ last.resolved = "exit" /\ last.exited # 0
    /\ trans = [name |-> "startOnboarding", step |-> "quiesce"]

\* C4: a Lightning session and a WalletUnlocker session are never open at
\* the same time.
C4_NeverBothOpen == Open("lightning") = {} \/ Open("walletUnlocker") = {}

\* C5 as claimed: a connect attempt that failed with code 12 always ends
\* with the WalletUnlocker open and walletUnlockerGrpcActive sent once.
C5_AlwaysFallsBack ==
    attempt.phase = "done" /\ attempt.err = "12" =>
        /\ attempt.wu \in Open("walletUnlocker")
        /\ attempt.wuActive = 1

\* C5 amended: on code 12 the attempt connects a WalletUnlocker and sends
\* nothing before that connect ends; when it succeeds the WalletUnlocker is
\* open, walletUnlockerGrpcActive was sent exactly once and the controller
\* is `connected`; when it fails the WalletUnlocker is not open, nothing
\* was sent and the controller is back in `onboarding`.
C5_FallbackOnUnimplemented ==
    attempt.err = "12" =>
        /\ attempt.wu \in DOMAIN sess
        /\ attempt.lndError = 0
        /\ attempt.phase = "walletUnlocker" =>
              /\ sess[attempt.wu].kind = "walletUnlocker"
              /\ sess[attempt.wu].st = "connecting"
              /\ attempt.wuActive = 0
              /\ state = "onboarding" /\ pending
        /\ attempt.phase = "done" =>
              \/ /\ attempt.wu \in Open("walletUnlocker")
                 /\ attempt.wuActive = 1
                 /\ state = "connected" /\ ~pending
              \/ /\ attempt.wu \notin Open("walletUnlocker")
                 /\ attempt.wuActive = 0
                 /\ state = "onboarding" /\ ~pending

\* C5 witness: the fallback succeeded.
C5_Witness ==
    /\ attempt.phase = "done" /\ attempt.err = "12"
    /\ attempt.wu \in Open("walletUnlocker") /\ attempt.wuActive = 1

FieldErrors ==
    {"LND_GRPC_HOST_ERROR", "LND_GRPC_CERT_ERROR", "LND_GRPC_MACAROON_ERROR"}

\* C6: after a connect attempt of connectLnd that failed with a host,
\* certificate or macaroon error the transition has completed: the
\* controller is in the target state `connected`.
C6_CompletesOnError ==
    attempt.phase = "done" /\ attempt.err \in FieldErrors => state = "connected"

\* What the code does in the case of C6: after a host, certificate or
\* macaroon error startLndError has been sent once and `throw e` (206) has
\* aborted the transition: the controller is in `onboarding` with no
\* transition in progress.
C6_AbortsOnError ==
    attempt.phase = "done" /\ attempt.err \in FieldErrors =>
        /\ attempt.lndError = 1
        /\ state = "onboarding" /\ ~pending /\ trans = NoTrans

\* The case of C6 happens: a connect attempt ended with a host error.
C6_Witness ==
    /\ attempt.phase = "done" /\ attempt.err = "LND_GRPC_HOST_ERROR"
    /\ state = "onboarding"

\* C7: a failed connect attempt ends with the WalletUnlocker open or with
\* startLndError sent.
C7_NeverSilent ==
    attempt.phase = "done" /\ attempt.err # "none" =>
        \/ attempt.wu \in Open("walletUnlocker")
        \/ attempt.lndError > 0

\* C8: the exit of a Neutrino process while the controller is `running` or
\* `connected` shows the fatal dialog and takes the controller to
\* `terminated`; in any other state it shows nothing and the state stays.
C8_ExitTerminates ==
    [][ last'.exited # 0 =>
          IF state \in {"running", "connected"}
          THEN last'.fatal /\ state' = "terminated"
          ELSE ~last'.fatal /\ state' = state ]_vars

\* C8 witness: an exit was fatal and the controller is `terminated`.
C8_Witness == last.exited # 0 /\ last.fatal /\ state = "terminated"

\* C9: the exit of a Neutrino whose shutdown had already resolved (the
\* controller has left the state it was started for) is never fatal.
C9_LateExitIgnored ==
    last.exited # 0 /\ last.exitedShut # "none" => ~last.fatal

\* C10 as claimed: a call made while a transition is in progress is kept
\* for later, never thrown away.
C10_NeverDropped == last.result # "pending"

\* C10 amended: while a transition is in progress every call of a
\* transition method is rejected; it changes nothing of the transition in
\* progress and is not run later.
C10_RejectedWhilePending ==
    [][ pending /\ last'.call # "none" =>
          /\ last'.result \in {"pending", "invalid"}
          /\ UNCHANGED machine ]_vars

\* C10 witness: terminate was called during the 200 ms of onOnboarding and
\* was rejected.
C10_Witness ==
    /\ last.call = "terminate" /\ last.result = "pending"
    /\ trans = [name |-> "startOnboarding", step |-> "quiesce"]

\* C11: `terminated` is final: once the controller is there with no
\* transition in progress, no step changes its state, starts a transition
\* or calls app.quit() again.
C11_TerminatedIsFinal ==
    [][ state = "terminated" /\ ~pending =>
          state' = "terminated" /\ ~pending' /\ ~last'.quit ]_vars

AnyOpen == {i \in DOMAIN sess : sess[i].st = "open"}

\* C12: a startOnboarding transition tears down the sessions: the sessions
\* that were open when it began are disconnected by its first step (the
\* only step of onOnboarding that disconnects), and it completes only with
\* the shutdown of the Neutrino resolved.
C12_OnboardingTearsDown ==
    [][ /\ trans.name = "none" /\ trans'.name = "startOnboarding" =>
              AnyOpen' = {}
        /\ trans.name = "startOnboarding" /\ trans'.name = "none" =>
              ~sd'.timer /\ ~sd'.exitHandler ]_vars

\* C13: a command on the channel `lnd` (`walletUnlocker`) that arrives
\* while no Lightning (WalletUnlocker) session is open is not dispatched to
\* any session object, sends nothing and creates nothing.
C13_NoSessionNoDispatch ==
    /\ last.cmd = "lnd" /\ Open("lightning") = {} =>
           last.dispatched = 0 /\ last.pushed = 0
    /\ last.cmd = "walletUnlocker" /\ Open("walletUnlocker") = {} =>
           last.dispatched = 0 /\ last.pushed = 0

\* What a step of an event handler leaves in outbox when it sends q: all of
\* q to an open window; and the state stays.
Relays(q) == outbox' = (IF win THEN q ELSE << >>) /\ state' = state

\* C14: the start-up of a local node is relayed event by event: the sync
\* events 'waiting' and 'started' send exactly lndSyncStatus('waiting') and
\* lndSyncStatus('in-progress'), the unlocker-ready event sends nothing and
\* starts one WalletUnlocker connect, and the success of that connect sends
\* exactly walletUnlockerGrpcActive; the controller stays `running`.
C14_LocalStartupNotifications ==
    [][ /\ last'.event = "chain-sync-waiting" =>
              Relays(<< [msg |-> "lndSyncStatus", data |-> "waiting"] >>)
        /\ last'.event = "chain-sync-started" =>
              Relays(<< [msg |-> "lndSyncStatus", data |-> "in-progress"] >>)
        /\ last'.event = "wallet-unlocker-grpc-active" =>
              /\ Relays(<< >>)
              /\ Len(sess') = Len(sess) + 1
              /\ Connecting(walletUnlocker, "walletUnlocker")'
        /\ last'.event = "walletUnlocker.connect" /\ state = "running" =>
              /\ Relays(<< [msg |-> "walletUnlockerGrpcActive", data |-> ""] >>)
              /\ Open("walletUnlocker")' # {} ]_vars

\* C14 witness: in `running` with a local profile, the WalletUnlocker asked
\* for by the only Neutrino connected and walletUnlockerGrpcActive went out.
C14_Witness ==
    /\ state = "running" /\ cfg = "local" /\ Len(procs) = 1
    /\ last.event = "walletUnlocker.connect"
    /\ outbox = << [msg |-> "walletUnlockerGrpcActive", data |-> ""] >>
    /\ walletUnlocker \in Open("walletUnlocker")

\* The message of the rejection with the given code.
MessageOf(code) == (CHOOSE e \in Errors : e.code = code).message

\* C15: the errors object sent with startLndError is field-specific: after
\* a host error its host field is exactly the error's message, after a
\* certificate error only cert is set, after a macaroon error only macaroon.
C15_FieldSpecificErrors ==
    attempt.phase = "done" /\ attempt.lndError > 0 =>
        /\ attempt.err = "LND_GRPC_HOST_ERROR" =>
              attempt.errors.host = MessageOf(attempt.err)
        /\ attempt.err = "LND_GRPC_CERT_ERROR" =>
              attempt.errors = [NoErrors EXCEPT !.cert = MessageOf(attempt.err)]
        /\ attempt.err = "LND_GRPC_MACAROON_ERROR" =>
              attempt.errors = [NoErrors EXCEPT !.macaroon = MessageOf(attempt.err)]

\* C16: at most one Neutrino process is alive at any time.
C16_OneLiveProcess ==
    Cardinality({i \in DOMAIN procs : procs[i].st = "live"}) <= 1

\* C17: terminate always completes: in every state but `terminated` (with
\* no transition in progress) a call of terminate takes the controller to
\* `terminated`; and app.quit() is called only in `terminated`, with the
\* shutdown of the Neutrino resolved and no session left open.
C17_TerminateCompletes ==
    /\ [](state # "terminated" /\ ~pending =>
             ENABLED (CallTerminate /\ state' = "terminated"))
    /\ [][ last'.quit =>
             state' = "terminated" /\ ~sd'.timer /\ AnyOpen' = {} ]_vars

\* C18: a startOnboarding transition into `onboarding` completes, and sends
\* startOnboarding, only in the step that ends its 200 ms delay; the delay
\* starts only with the shutdown of the Neutrino resolved; and
\* startOnboarding is sent by no other step, except a call of
\* startOnboarding made in `onboarding` with no transition in progress.
C18_OnboardingAfterQuiescence ==
    [][ /\ trans.name = "startOnboarding" /\ trans'.name = "none" =>
              /\ trans.step = "quiesce" /\ ~sd.timer
              /\ state' = "onboarding" /\ ~pending'
              /\ outbox' = IF win THEN << [msg |-> "startOnboarding", data |-> cfg] >>
                           ELSE << >>
        /\ trans'.step = "quiesce" /\ trans.step # "quiesce" =>
              ~sd'.timer /\ ~sd'.exitHandler
        /\ (\E k \in DOMAIN outbox' : outbox'[k].msg = "startOnboarding") =>
              \/ trans.step = "quiesce" /\ trans' = NoTrans
              \/ state = "onboarding" /\ ~pending /\ UNCHANGED << state, pending >>
      ]_vars

\* C18 witness: the controller left `running`, the shutdown of the Neutrino
\* resolved by the timer, the delay elapsed, and startOnboarding went out.
C18_Witness ==
    /\ state = "onboarding" /\ ~pending
    /\ neutrino # 0 /\ procs[neutrino].shut = "timer"
    /\ outbox = << [msg |-> "startOnboarding", data |-> "local"] >>
    /\ last.pushed = 1

\* C19: the cipher-suite variable is written at most once: a value supplied
\* from outside (set and not empty) is never changed, and an unset or empty
\* one changes only to the suites of the profile type of the
\* finishOnboarding that writes it, after which it is a supplied value.
C19_CipherSuitesWrittenOnce ==
    [][ /\ cipher \notin {Unset, ""} => cipher' = cipher
        /\ cipher' # cipher =>
              /\ cipher' = grpcSslCipherSuites(cfg')
              /\ cipher' \notin {Unset, ""} ]_vars

\* C19 witness: the variable holds the suites written for a local profile
\* while a later finishOnboarding has made the profile btcpayserver.
C19_Witness ==
    /\ cipher = grpcSslCipherSuites("local")
    /\ cfg = "btcpayserver"

\* C20: once the main window is gone it stays gone and nothing is delivered
\* any more, in the step of a sendMessage or later; a handler that only
\* sends (a sync or height event) then changes nothing of the controller;
\* with the window there, every sendMessage of a step is delivered.
C20_DiscardedWithoutWindow ==
    [][ /\ ~win => ~win' /\ outbox' = << >>
        /\ ~win /\ last'.event \in DOMAIN SyncStatus \cup {"height"} =>
              /\ last'.pushed = 1
              /\ UNCHANGED << state, pending, trans, neutrino, procs, lightning,
                              walletUnlocker, sess, ipc, sd >>
        /\ win => Len(outbox') = last'.pushed ]_vars

\* C20 witness: a sync event was relayed by sendMessage with the window
\* gone, and nothing was delivered.
C20_Witness ==
    /\ ~win /\ last.event = "chain-sync-waiting" /\ last.pushed = 1
    /\ outbox = << >>

\* C21: while the controller is `running` or `connected`, the connection
\* profile (this.lndConfig, saved and made the active connection by the
\* same call that replaces it) does not change.
C21_ProfileFixedInSession ==
    [][ (state \in {"running", "connected"}) => cfg' = cfg ]_vars

\* The Neutrino processes a step sends SIGINT to.
NewlyInterrupted ==
    {i \in DOMAIN procs : ~procs[i].sigint /\ procs'[i].sigint}

\* C22: shutdownNeutrino with an open Lightning session disconnects it and
\* sends no SIGINT in that step: the SIGINT is sent by the step in which the
\* awaited disconnect returns.  With no open Lightning session it sends
\* SIGINT at once and disconnects nothing.  No other step sends SIGINT.
C22_DisconnectBeforeInterrupt ==
    [][ /\ ~sd.timer /\ sd'.timer =>
              IF lightningCan(Cur)
              THEN /\ sd'.draining = sd.draining + 1
                   /\ sess'[lightning].st = "closed"
                   /\ NewlyInterrupted = {}
              ELSE /\ sd'.draining = sd.draining
                   /\ AnyOpen' = AnyOpen
                   /\ procs'[sd'.proc].st = "live" => procs'[sd'.proc].sigint
        /\ NewlyInterrupted # {} =>
              \/ ~sd.timer /\ sd'.timer /\ ~lightningCan(Cur)
              \/ sd.draining > 0 /\ sd'.draining = sd.draining - 1 ]_vars

\* C22 witness: a shutdown is waiting for the disconnect of the Lightning
\* session it closed, and its process has not been sent SIGINT yet.
C22_Witness ==
    /\ sd.timer /\ sd.draining = 1
    /\ procs[sd.proc].st = "live" /\ ~procs[sd.proc].sigint
    /\ lightning # 0 /\ sess[lightning].st = "closed"

\* The channels the controller registers command handlers on (261, 287,
\* 438-439).
Channels == {"startLnd", "startLightningWallet", "walletUnlocker", "lnd"}

\* C23: at most one command handler is registered on each inbound channel.
C23_OneHandlerPerChannel ==
    \A ch \in Channels : ipc[ch] <= 1

\* The two channels registered by _registerIpcListeners keep one handler.
ControlChannelsSingle ==
    ipc.startLnd <= 1 /\ ipc.startLightningWallet <= 1

\* The calls of the latest step, as a set.
Did == {last.did[k] : k \in DOMAIN last.did}

\* C24: sendMessage('lightningGrpcActive') is called only by the step in
\* which lightning.connect() resolved, after that step called subscribe and
\* then ipcMain.on('lnd'), in that order; a step in which connect() rejected
\* calls none of the three nor sends walletConnected; and walletConnected is
\* sent only as the call next after lightningGrpcActive, by a connectLnd that
\* caught no error and so made no Unlocker fallback.
C24_ActiveAfterSubscribeAndHandler ==
    LET ready == << "lightning.subscribe", "ipcMain.on:lnd",
                    "lightningGrpcActive" >>
    IN  /\ Did \cap {"lightning.subscribe", "ipcMain.on:lnd",
                     "lightningGrpcActive"} # {} =>
               /\ last.event = "lightning.connect"
               /\ Len(last.did) >= 3 /\ SubSeq(last.did, 1, 3) = ready
               /\ \E i \in DOMAIN sess : sess[i].kind = "lightning" /\ sess[i].st = "open"
        /\ last.event = "lightning.connect:rejected" =>
               Did \cap {"lightning.subscribe", "ipcMain.on:lnd",
                         "lightningGrpcActive", "walletConnected"} = {}
        /\ "walletConnected" \in Did =>
               /\ last.did = ready \o << "walletConnected" >>
               /\ state = "connected" /\ ~pending
               /\ attempt.err = "none" /\ attempt.wuActive = 0
        /\ \A k \in DOMAIN outbox : outbox[k].msg \in Did

\* C24 witness: connectLnd has just completed with the window open, and the
\* renderer was sent lightningGrpcActive and then walletConnected.
C24_Witness ==
    /\ last.event = "lightning.connect" /\ state = "connected"
    /\ Len(outbox) = 2
    /\ outbox[1].msg = "lightningGrpcActive"
    /\ outbox[2].msg = "walletConnected"
    /\ ipc.lnd = 1

=============================================================================
